---------------------------- MODULE Spec2Model ----------------------------
(***************************************************************************)
(* Model of the party-queue server (src/server/src/index.js): the host's   *)
(* credential pair, the OAuth handshake store, the per-client quota store, *)
(* the vibe policy and the request handlers that read and write them.      *)
(*                                                                         *)
(* Granularity.  Node runs a handler without interruption up to its next   *)
(* network await (fetch and the read of its body); every such await is a   *)
(* point where other handlers run.  One action is therefore one handler    *)
(* segment: from the arrival of a request or of an upstream answer up to   *)
(* the next fetch or to the response.  Between a fetch and the read of its *)
(* body the handlers touch no shared state, so both are one await.         *)
(*                                                                         *)
(* Time is in milliseconds, as Date.now().  Real-valued audio features are *)
(* in hundredths (0.25 is 25); tempo is in BPM.                            *)
(***************************************************************************)
EXTENDS Integers, Sequences, FiniteSets, TLC

(***************************************************************************)
(* Program constants                                                       *)
(***************************************************************************)
RATE_LIMIT_WINDOW_MS == 3600000
RATE_LIMIT_MAX_REQUESTS == 10
TEN_MINUTES == 600000
REFRESH_SKEW_MS == 60000

\* null / undefined of a number-valued or reference-valued field
NULL == -1

(***************************************************************************)
(* Bounds of the model                                                     *)
(***************************************************************************)
NumReq == 2        \* request handlers that can be in flight together
NumClients == 2    \* client keys (req.ip)
MaxTime == 2       \* the clock runs to MaxTime steps
MaxStates == 2     \* begin-logins (state tokens generated)
MaxCallbacks == 2  \* token exchanges of callbacks in flight together
MaxSucc == 1       \* enqueues that add a track, beyond those the claims need

\* the clock advances in steps of ten minutes
TimeStep == TEN_MINUTES

Reqs == 1..NumReq
Clients == 1..NumClients
\* the client of the specifications that follow the requests of one client
OneClient == {1}
States == 1..MaxStates
\* a request refers to one userLimit object; the store to one per client
ObjIds == 1..(NumReq + NumClients)

\* expires_in (seconds) that the token endpoint may answer with
ExpiresIn == {660}

VARIABLES
    now,             \* Date.now()
    hostTokens,      \* the credential pair
    rateLimitStore,  \* client -> reference to a userLimit object, or NULL
    limObjs,         \* the userLimit objects: id -> {count, windowStart}
    oauthStateStore, \* state token -> createdAt, or NULL
    currentVibe,     \* the policy
    reqs,            \* the request handlers in flight
    nextState,       \* state tokens generated so far
    cbInFlight,      \* token exchanges of callbacks awaiting their answer
    hist             \* history of the run, read by the properties only

vars == <<now, hostTokens, rateLimitStore, limObjs, oauthStateStore,
          currentVibe, reqs, nextState, cbInFlight, hist>>


(***************************************************************************)
(* The vibe policy: VIBE_PRESETS and currentVibe                           *)
(***************************************************************************)
\* a {min, max} range of a preset, and the value of a property a preset lacks
Range(lo, hi) == [def |-> TRUE, min |-> lo, max |-> hi]
NoRange == [def |-> FALSE, min |-> 0, max |-> 0]
Tolerance(e, v, d, t) ==
    [def |-> TRUE, energy |-> e, valence |-> v, danceability |-> d, tempo |-> t]
NoTolerance ==
    [def |-> FALSE, energy |-> 0, valence |-> 0, danceability |-> 0, tempo |-> 0]

Preset(nm, en, dyn, tol, e, v, t, d) ==
    [name |-> nm, enabled |-> en, dynamic |-> dyn, tolerance |-> tol,
     energy |-> e, valence |-> v, tempo |-> t, danceability |-> d]

PresetIds == {"off", "match", "chill", "party", "romantic", "hype", "custom"}

VIBE_PRESETS ==
    [id \in PresetIds |->
       CASE id = "off" ->
              Preset("Off", FALSE, FALSE, NoTolerance,
                     NoRange, NoRange, NoRange, NoRange)
         [] id = "match" ->
              Preset("Match Now Playing", TRUE, TRUE, Tolerance(25, 25, 25, 20),
                     NoRange, NoRange, NoRange, NoRange)
         [] id = "chill" ->
              Preset("Chill Vibes", TRUE, FALSE, NoTolerance,
                     Range(10, 60), Range(20, 80), Range(60, 120), Range(30, 80))
         [] id = "party" ->
              Preset("Party Mode", TRUE, FALSE, NoTolerance,
                     Range(60, 100), Range(40, 100), Range(100, 150), Range(60, 100))
         [] id = "romantic" ->
              Preset("Romantic", TRUE, FALSE, NoTolerance,
                     Range(10, 60), Range(20, 70), Range(60, 120), Range(20, 70))
         [] id = "hype" ->
              Preset("Hype", TRUE, FALSE, NoTolerance,
                     Range(75, 100), Range(50, 100), Range(110, 180), Range(65, 100))
         [] id = "custom" ->
              Preset("Custom", TRUE, FALSE, NoTolerance,
                     Range(0, 100), Range(0, 100), Range(0, 300), Range(0, 100))]

\* { ...base, ...over }: the properties of over replace those of base
Spread(base, over) ==
    [f \in DOMAIN base \cup DOMAIN over |->
        IF f \in DOMAIN over THEN over[f] ELSE base[f]]

\* an audio-features object, and null
Features(e, v, t, d) ==
    [def |-> TRUE, energy |-> e, valence |-> v, tempo |-> t, danceability |-> d]
NoFeatures == [def |-> FALSE, energy |-> 0, valence |-> 0, tempo |-> 0, danceability |-> 0]

\* the audio profiles the catalogue answers with
Profiles == {Features(20, 50, 120, 70), Features(80, 60, 125, 80)}

\* the preset ids and customSettings a set-vibe request is sent with
VibeInputs == {"off", "match", "party", "custom", "bogus", "missing"}
NoCustom == [none |-> TRUE]
CustomInputs == {NoCustom, [energy |-> Range(50, 100)]}

(***************************************************************************)
(* The quota store                                                         *)
(***************************************************************************)
FreeObj == [live |-> FALSE, count |-> 0, windowStart |-> 0]

\* the objects something still refers to: the store or a request in flight
Referenced(store, rq) ==
    {store[c] : c \in Clients} \cup {rq[r].lim : r \in Reqs}

\* References are compared, never shown: the objects are kept under canonical
\* ids.  The object stored for client c has id c; an object that only
\* requests refer to has the id NumClients + r of the first such request r.
CanonicalId(o, store, rq) ==
    IF o = NULL THEN NULL
    ELSE IF \E c \in Clients : store[c] = o
    THEN CHOOSE c \in Clients : store[c] = o
    ELSE NumClients + (CHOOSE r \in Reqs :
                          /\ rq[r].lim = o
                          /\ \A p \in Reqs : rq[p].lim = o => r <= p)

CanonicalStore(store) ==
    [c \in Clients |-> IF store[c] = NULL THEN NULL ELSE c]

CanonicalReqs(store, rq) ==
    [r \in Reqs |-> [rq[r] EXCEPT !.lim = CanonicalId(@, store, rq)]]

\* the objects under their canonical ids; an object nothing refers to is gone
Collect(objs, store, rq) ==
    [n \in ObjIds |->
        IF \E o \in Referenced(store, rq) : o # NULL /\ CanonicalId(o, store, rq) = n
        THEN objs[CHOOSE o \in Referenced(store, rq) :
                     o # NULL /\ CanonicalId(o, store, rq) = n]
        ELSE FreeObj]

\* the id a new object gets
FreshObj(objs, store, rq) ==
    CHOOSE o \in ObjIds :
        /\ o \notin Referenced(store, rq)
        /\ \A p \in ObjIds : p \notin Referenced(store, rq) => o <= p

(***************************************************************************)
(* Requests in flight                                                      *)
(***************************************************************************)
IdleReq ==
    [kind |-> "none", client |-> NULL, pc |-> "idle", stage |-> "none",
     lim |-> NULL, af |-> NoFeatures, nDispatch |-> 0, nReactive |-> 0,
     appendSent |-> 0, outcome |-> "none", status |-> 0, remaining |-> NULL,
     resetAt |-> NULL, minutes |-> NULL,
     refreshErr |-> "none", lockout |-> FALSE]

NoTokens == [accessToken |-> "null", refreshToken |-> "null", expiresAt |-> NULL]

\* what is remembered of the request in a slot: nothing yet
NoArrival == [uri |-> "none", at |-> NULL, fresh |-> FALSE]

\* what is remembered of the vibe check of the request in a slot: none made
NoCheck ==
    [done |-> FALSE, dynamic |-> FALSE, matches |-> TRUE, reason |-> "null",
     allReasons |-> <<>>, audioFeatures |-> NoFeatures,
     referenceFeatures |-> NoFeatures,
     thresholds |-> [energy |-> NoRange, valence |-> NoRange,
                     tempo |-> NoRange, danceability |-> NoRange]]

\* the history at the start of a run in which the first k state tokens have
\* each begun one token exchange and the last callback ended as cb
History(k, cb) ==
    [exch |-> [s \in States |-> IF s <= k THEN 1 ELSE 0], staleExch |-> FALSE,
     cb |-> cb, cbState |-> NULL, cbCoded |-> FALSE, rejected |-> FALSE,
     succ |-> [c \in Clients |-> <<>>],
     viaRefresh |-> [r \in Reqs |-> FALSE],
     arrival |-> [r \in Reqs |-> NoArrival],
     note |-> [r \in Reqs |-> "none"],
     check |-> [r \in Reqs |-> NoCheck],
     answer |-> [r \in Reqs |-> NULL],
     loggedOut |-> FALSE,
     setVibe |-> [preset |-> "none", custom |-> NoCustom, status |-> 0,
                  turn |-> 0]]

Init ==
    /\ now = 0
    /\ hostTokens = NoTokens
    /\ rateLimitStore = [c \in Clients |-> NULL]
    /\ limObjs = [o \in ObjIds |-> FreeObj]
    /\ oauthStateStore = [s \in States |-> NULL]
    /\ currentVibe = [preset |-> "off", settings |-> VIBE_PRESETS["off"]]
    /\ reqs = [r \in Reqs |-> IdleReq]
    /\ nextState = 0
    /\ cbInFlight = 0
    /\ hist = History(0, "none")

(***************************************************************************)
(* spotifyFetch and refreshAccessToken                                     *)
(***************************************************************************)
\* a spotifyFetch that never refreshes ahead of the expiry
NeedsRefreshNever(tok, t) == FALSE

\* the test at the head of spotifyFetch: the token is to be refreshed first
NeedsRefresh(tok, t) ==
    tok.expiresAt # NULL /\ t >= tok.expiresAt - REFRESH_SKEW_MS

\* where spotifyFetch gets to before its first await, or what it throws
FetchEntry(tok, t) ==
    IF NeedsRefresh(tok, t)
    THEN IF tok.refreshToken = "null"
         THEN [kind |-> "throw", msg |-> "No refresh token available"]
         ELSE [kind |-> "refresh_pre", msg |-> ""]
    ELSE IF tok.accessToken = "null"
         THEN [kind |-> "throw", msg |-> "Not authenticated"]
         ELSE [kind |-> "fetch", msg |-> ""]

\* the handler has sent its response
Finish(q, outcome, status) ==
    [q EXCEPT !.pc = "done", !.stage = "none", !.outcome = outcome,
              !.status = status, !.lim = NULL, !.af = NoFeatures,
              !.nDispatch = 0, !.nReactive = 0]

\* the catch block of a route
RouteCatch(q, msg) ==
    IF msg = "Not authenticated"
    THEN Finish(q, "not_authenticated", 401)
    ELSE Finish(q, "internal_error", 500)

\* spotifyFetch of stage s awaits the answer to its request or to its refresh
Await(q, s, kind) ==
    IF kind = "fetch"
    THEN [q EXCEPT !.pc = "fetch", !.stage = s, !.nDispatch = 1, !.nReactive = 0,
                   !.appendSent = IF s = "append" THEN @ + 1 ELSE @]
    ELSE [q EXCEPT !.pc = "refresh_pre", !.stage = s, !.nDispatch = 0,
                   !.nReactive = 0]

\* the last spotifyFetch of a route (the append of an enqueue, the read of a
\* read-through route): what it throws reaches the route's catch block
EnterLast(q, s, tok, t) ==
    LET e == FetchEntry(tok, t)
    IN  IF e.kind = "throw" THEN RouteCatch(q, e.msg) ELSE Await(q, s, e.kind)

\* the enqueue goes on to the append call: the vibe check matched, was
\* skipped, or failed open
EnterAppend(q, tok, t) == EnterLast(q, "append", tok, t)

VibeStages == {"features", "nowplaying", "reffeatures"}

\* spotifyFetch of stage s threw msg: getAudioFeatures and
\* getCurrentlyPlayingTrackId catch it and return null, which the vibe check
\* takes as a match; the append and the reads let it reach the route
Thrown(q, s, msg, tok, t) ==
    IF s \in VibeStages THEN EnterAppend(q, tok, t) ELSE RouteCatch(q, msg)

\* a call of spotifyFetch for stage s, up to its first await
Enter(q, s, tok, t) ==
    LET e == FetchEntry(tok, t)
    IN  IF e.kind = "throw" THEN Thrown(q, s, e.msg, tok, t) ELSE Await(q, s, e.kind)

\* what the token endpoint answers a refresh with: new tokens, with or without
\* a new refresh token; a non-ok answer with a JSON body; a non-ok answer
\* whose body is no JSON; no answer (fetch rejects)
RefreshAnswers == {"ok", "ok_rotated", "rejected", "rejected_nojson", "neterror"}

\* hostTokens after refreshAccessToken has handled the answer
Refreshed(tok, ans, ei, t) ==
    CASE ans = "ok" ->
           [tok EXCEPT !.accessToken = "access", !.expiresAt = t + ei * 1000]
      [] ans = "ok_rotated" ->
           [accessToken |-> "access", refreshToken |-> "refresh",
            expiresAt |-> t + ei * 1000]
      [] ans = "rejected" -> NoTokens
      [] OTHER -> tok

\* what refreshAccessToken throws on the answer ("" when it returns)
RefreshThrows(ans) ==
    CASE ans \in {"ok", "ok_rotated"} -> ""
      [] ans = "rejected" -> "Failed to refresh token"
      [] ans = "rejected_nojson" -> "SyntaxError"
      [] OTHER -> "fetch failed"

(***************************************************************************)
(* checkVibeMatch                                                          *)
(***************************************************************************)
Max(a, b) == IF a >= b THEN a ELSE b
Min(a, b) == IF a <= b THEN a ELSE b

\* thresholds that are the bare windows around the reference
DynamicThresholdsUnclamped(ref, tol) ==
    [energy |-> Range(ref.energy - tol.energy, ref.energy + tol.energy),
     valence |-> Range(ref.valence - tol.valence, ref.valence + tol.valence),
     danceability |-> Range(ref.danceability - tol.danceability,
                            ref.danceability + tol.danceability),
     tempo |-> Range(ref.tempo - tol.tempo, ref.tempo + tol.tempo)]

\* the thresholds built from the now-playing track's features
DynamicThresholds(ref, tol) ==
    [energy |-> Range(Max(0, ref.energy - tol.energy),
                      Min(100, ref.energy + tol.energy)),
     valence |-> Range(Max(0, ref.valence - tol.valence),
                       Min(100, ref.valence + tol.valence)),
     danceability |-> Range(Max(0, ref.danceability - tol.danceability),
                            Min(100, ref.danceability + tol.danceability)),
     tempo |-> Range(Max(0, ref.tempo - tol.tempo), ref.tempo + tol.tempo)]

\* the thresholds of a preset
StaticThresholds(settings) ==
    [energy |-> settings.energy, valence |-> settings.valence,
     tempo |-> settings.tempo, danceability |-> settings.danceability]

\* a check that takes a value on a bound of its range for a mismatch
DimensionInclusive(value, range, low, high) ==
    IF range.def /\ (value <= range.min \/ value >= range.max)
    THEN <<IF value <= range.min THEN low ELSE high>>
    ELSE <<>>

\* one dimension's entry in the list of mismatches
Dimension(value, range, low, high) ==
    IF range.def /\ (value < range.min \/ value > range.max)
    THEN <<IF value < range.min THEN low ELSE high>>
    ELSE <<>>

\* a check that looks at the tempo first
MismatchesTempoFirst(af, th) ==
    Dimension(af.tempo, th.tempo, "Tempo is too slow", "Tempo is too fast")
    \o Dimension(af.energy, th.energy, "Energy is too mellow", "Energy is too intense")
    \o Dimension(af.valence, th.valence, "Mood is too sad", "Mood is too upbeat")
    \o Dimension(af.danceability, th.danceability,
                 "Track is not danceable enough", "Track is too dancey")

\* the list of mismatches, in the order the code pushes them
Mismatches(af, th) ==
    Dimension(af.energy, th.energy, "Energy is too mellow", "Energy is too intense")
    \o Dimension(af.valence, th.valence, "Mood is too sad", "Mood is too upbeat")
    \o Dimension(af.tempo, th.tempo, "Tempo is too slow", "Tempo is too fast")
    \o Dimension(af.danceability, th.danceability,
                 "Track is not danceable enough", "Track is too dancey")

\* an enqueue that goes on to the append whatever checkVibeMatch found
ClassifiedLenient(q, mism, tok, t) == EnterAppend(q, tok, t)

\* the enqueue's answer to the outcome of checkVibeMatch
Classified(q, mism, tok, t) ==
    IF Len(mism) > 0
    THEN Finish(q, "vibe_mismatch", 403)
    ELSE EnterAppend(q, tok, t)

(***************************************************************************)
(* The answers of the upstream API                                         *)
(***************************************************************************)
Statuses == {200, 204, 401, 404, 500}
Ok(status) == status >= 200 /\ status <= 299

\* an answer: a status and a body, or none (fetch rejects).  The body of a
\* 200 is a profile (audio-features), "track" or "noitem" (currently
\* playing), or no JSON
Bodies == Profiles \cup {NoFeatures}
Answer(st, b, tr) == [neterror |-> FALSE, status |-> st, body |-> b, item |-> tr]
NetError == [neterror |-> TRUE, status |-> 0, body |-> NoFeatures, item |-> FALSE]
Answers(s) ==
    {NetError} \cup
    CASE s \in {"features", "reffeatures"} ->
           {Answer(st, b, FALSE) : st \in Statuses \ {204}, b \in Bodies}
      [] s = "nowplaying" ->
           {Answer(st, NoFeatures, tr) : st \in Statuses, tr \in BOOLEAN}
      [] OTHER -> {Answer(st, NoFeatures, FALSE) : st \in Statuses}

\* the profiles with values on, below and above the bounds of the presets'
\* ranges, and the reference profiles near the ends of the domain
CheckProfiles ==
    {Features(e, v, t, d) : e \in {20, 60, 100}, v \in {39, 40},
                            t \in {100, 150, 151}, d \in {59, 80}}
RefProfiles == {Features(90, 10, 120, 50), Features(35, 65, 290, 100)}

\* the answers that carry them, and the answers that let the request go on
CheckAnswers(s) ==
    CASE s = "features" -> {Answer(200, b, FALSE) : b \in CheckProfiles}
      [] s = "nowplaying" -> {Answer(200, NoFeatures, TRUE)}
      [] s = "reffeatures" -> {Answer(200, b, FALSE) : b \in RefProfiles}
      [] OTHER -> {Answer(500, NoFeatures, FALSE)}

\* a vibe check that takes a profile it cannot get for a mismatch
ReturnedVibeFailClosed(q, s, a, vibe, tok, t) ==
    CASE s = "features" ->
           IF ~Ok(a.status) \/ ~a.body.def
           THEN Finish(q, "vibe_mismatch", 403)
           ELSE IF ~vibe.settings.enabled
           THEN EnterAppend(q, tok, t)
           ELSE IF vibe.settings.dynamic
           THEN Enter([q EXCEPT !.af = a.body], "nowplaying", tok, t)
           ELSE Classified(q, Mismatches(a.body, StaticThresholds(vibe.settings)),
                           tok, t)
      [] s = "nowplaying" ->
           IF a.status = 204 \/ ~Ok(a.status) \/ ~a.item
           THEN EnterAppend(q, tok, t)
           ELSE Enter(q, "reffeatures", tok, t)
      [] s = "reffeatures" ->
           IF ~Ok(a.status) \/ ~a.body.def
           THEN Finish(q, "vibe_mismatch", 403)
           ELSE Classified(q, Mismatches(q.af,
                                DynamicThresholds(a.body, vibe.settings.tolerance)),
                           tok, t)

\* spotifyFetch of a vibe stage returned the answer a to its caller
\* (getAudioFeatures or getCurrentlyPlayingTrackId, then checkVibeMatch and
\* the enqueue route)
ReturnedVibe(q, s, a, vibe, tok, t) ==
    CASE s = "features" ->
           IF ~Ok(a.status) \/ ~a.body.def
           THEN EnterAppend(q, tok, t)        \* null: fail open
           ELSE IF ~vibe.settings.enabled
           THEN EnterAppend(q, tok, t)
           ELSE IF vibe.settings.dynamic
           THEN Enter([q EXCEPT !.af = a.body], "nowplaying", tok, t)
           ELSE Classified(q, Mismatches(a.body, StaticThresholds(vibe.settings)),
                           tok, t)
      [] s = "nowplaying" ->
           IF a.status = 204 \/ ~Ok(a.status) \/ ~a.item
           THEN EnterAppend(q, tok, t)        \* nothing playing
           ELSE Enter(q, "reffeatures", tok, t)
      [] s = "reffeatures" ->
           IF ~Ok(a.status) \/ ~a.body.def
           THEN EnterAppend(q, tok, t)        \* no reference features
           ELSE IF ~vibe.settings.tolerance.def
           THEN RouteCatch(q, "TypeError")    \* tol.energy of undefined
           ELSE Classified(q, Mismatches(q.af,
                                DynamicThresholds(a.body, vibe.settings.tolerance)),
                           tok, t)

\* the read-through routes' answer to what spotifyFetch returned
ReturnedRead(q, a) ==
    IF Ok(a.status) THEN Finish(q, "read_ok", 200)
    ELSE Finish(q, "read_failed", a.status)

(***************************************************************************)
(* Actions                                                                 *)
(***************************************************************************)
\* the clock advances by d, up to limit
Tick(d, limit) ==
    /\ now + d <= limit
    /\ now' = now + d
    /\ UNCHANGED <<hostTokens, rateLimitStore, limObjs, oauthStateStore,
                   currentVibe, reqs, nextState, cbInFlight>>

\* a sweep that deletes the entries that are ten minutes old as well
SweepInclusive(store, t) ==
    [s \in States |->
        IF store[s] # NULL /\ t - store[s] >= TEN_MINUTES THEN NULL ELSE store[s]]

\* the sweep of begin-login: the entries older than ten minutes are deleted
Sweep(store, t) ==
    [s \in States |->
        IF store[s] # NULL /\ t - store[s] > TEN_MINUTES THEN NULL ELSE store[s]]

\* GET /api/auth/login
Login ==
    /\ nextState < MaxStates
    /\ nextState' = nextState + 1
    /\ oauthStateStore' =
          Sweep([oauthStateStore EXCEPT ![nextState + 1] = now], now)
    /\ UNCHANGED <<now, hostTokens, rateLimitStore, limObjs, currentVibe, reqs,
                   cbInFlight>>

\* what GET /api/auth/callback does before its await: "error", "missing_code",
\* "state_mismatch", or "exchange" when it goes on to the token exchange
CallbackEntry(store, st, code, err) ==
    IF err THEN "error"
    ELSE IF ~code THEN "missing_code"
    ELSE IF st = NULL \/ store[st] = NULL THEN "state_mismatch"
    ELSE "exchange"

\* a callback that leaves the record of its state in the store
CallbackStoreKept(store, st, code, err) == store

\* oauthStateStore after the callback's first segment
CallbackStore(store, st, code, err) ==
    IF CallbackEntry(store, st, code, err) = "exchange"
    THEN [store EXCEPT ![st] = NULL]
    ELSE store

\* GET /api/auth/callback, up to the token exchange.  st is the state of the
\* query (NULL: none, or one never generated)
Callback(st, code, err) ==
    LET entry == CallbackEntry(oauthStateStore, st, code, err)
    IN  /\ entry = "exchange" => cbInFlight < MaxCallbacks
        /\ oauthStateStore' = CallbackStore(oauthStateStore, st, code, err)
        /\ cbInFlight' = IF entry = "exchange" THEN cbInFlight + 1 ELSE cbInFlight
        /\ UNCHANGED <<now, hostTokens, rateLimitStore, limObjs, currentVibe,
                       reqs, nextState>>

\* the token endpoint's answers to the exchange of a code
ExchangeAnswers == {"ok", "rejected", "neterror"}

\* a callback that drops the credential when its token exchange fails
ExchangedClearing(tok, ans, ei, t) ==
    IF ans = "ok"
    THEN [accessToken |-> "access", refreshToken |-> "refresh",
          expiresAt |-> t + ei * 1000]
    ELSE NoTokens

\* hostTokens after the callback has handled the answer of the token exchange
Exchanged(tok, ans, ei, t) ==
    IF ans = "ok"
    THEN [accessToken |-> "access", refreshToken |-> "refresh",
          expiresAt |-> t + ei * 1000]
    ELSE tok

\* GET /api/auth/status
AuthStatus(tok) ==
    [authenticated |-> tok.accessToken # "null" /\ tok.expiresAt # NULL
                       /\ tok.expiresAt # 0,
     expiresAt |-> tok.expiresAt]

\* GET /api/auth/callback, from the answer of the token exchange
CallbackAnswer(ans, ei) ==
    /\ cbInFlight > 0
    /\ cbInFlight' = cbInFlight - 1
    /\ hostTokens' = Exchanged(hostTokens, ans, ei, now)
    /\ reqs' = IF ans = "ok"
               THEN [r \in Reqs |-> [reqs[r] EXCEPT !.lockout = FALSE]]
               ELSE reqs
    /\ UNCHANGED <<now, rateLimitStore, limObjs, oauthStateStore, currentVibe,
                   nextState>>

\* POST /api/auth/logout
Logout ==
    /\ hostTokens' = NoTokens
    /\ UNCHANGED <<now, rateLimitStore, limObjs, oauthStateStore, currentVibe,
                   reqs, nextState, cbInFlight>>

\* the names that VIBE_PRESETS, an object literal, inherits from
\* Object.prototype: VIBE_PRESETS[name] is truthy for them too.  One stands
\* for all of them ("toString", "valueOf", "__proto__", ...)
InheritedIds == {"constructor"}

\* { ...VIBE_PRESETS[name] } for an inherited name: an object with no
\* properties
EmptySettings ==
    Preset("undefined", FALSE, FALSE, NoTolerance,
           NoRange, NoRange, NoRange, NoRange)

\* the status of the answer to POST /api/vibe
VibeStatus(preset) ==
    IF preset \in PresetIds \cup InheritedIds THEN 200 ELSE 400

\* currentVibe after POST /api/vibe
VibeSet(vibe, preset, custom) ==
    IF preset \in InheritedIds
    THEN [preset |-> preset, settings |-> EmptySettings]
    ELSE IF preset \notin PresetIds THEN vibe
    ELSE IF preset = "custom" /\ custom # NoCustom
    THEN [preset |-> "custom",
          settings |-> [Spread(VIBE_PRESETS["custom"], custom)
                           EXCEPT !.enabled = TRUE]]
    ELSE [preset |-> preset, settings |-> VIBE_PRESETS[preset]]

\* POST /api/vibe
SetVibe(preset, custom) ==
    /\ currentVibe' = VibeSet(currentVibe, preset, custom)
    /\ UNCHANGED <<now, hostTokens, rateLimitStore, limObjs, oauthStateStore,
                   reqs, nextState, cbInFlight>>

(***************************************************************************)
(* checkRateLimit and the enqueue route                                    *)
(***************************************************************************)
\* a checkRateLimit that keeps the window through the instant of its reset
LapsedStrict(store, objs, c, t) ==
    IF store[c] = NULL THEN TRUE
    ELSE t - objs[store[c]].windowStart > RATE_LIMIT_WINDOW_MS

\* checkRateLimit sees no window of client c that is still running
Lapsed(store, objs, c, t) ==
    IF store[c] = NULL THEN TRUE
    ELSE t - objs[store[c]].windowStart >= RATE_LIMIT_WINDOW_MS

\* the userLimit object checkRateLimit goes on with: the stored one, or a new
\* one that is not stored
UserLimit(store, objs, c, t) ==
    IF Lapsed(store, objs, c, t)
    THEN [live |-> TRUE, count |-> 0, windowStart |-> t]
    ELSE objs[store[c]]

\* a checkRateLimit that starts the new window in the stored object
ReservedInPlace(store, objs, rq, c, t) ==
    IF store[c] = NULL THEN FreshObj(objs, store, rq) ELSE store[c]

\* the reference under which the request holds its userLimit object: that of
\* a new object for a new window, that of the stored object otherwise
Reserved(store, objs, rq, c, t) ==
    IF Lapsed(store, objs, c, t) THEN FreshObj(objs, store, rq) ELSE store[c]

\* an estimate that rounds the minutes down
MinutesRemainingFloor(resetTime, t) == (resetTime - t) \div 60000

\* Math.ceil((resetTime - now) / 60000)
MinutesRemaining(resetTime, t) == (resetTime - t + 59999) \div 60000

\* the 429 of checkRateLimit
RateLimited(q, ul, t) ==
    Finish([q EXCEPT !.remaining = 0,
                     !.resetAt = ul.windowStart + RATE_LIMIT_WINDOW_MS,
                     !.minutes = MinutesRemaining(
                                    ul.windowStart + RATE_LIMIT_WINDOW_MS, t)],
           "rate_limited", 429)

\* the URIs an enqueue is sent with: none, one that is no track URI, a track's
Uris == {"missing", "malformed", "track"}

\* an enqueue that reads the candidate's profile whatever the policy
EnqueueEntryAlwaysChecking(q, ul, ref, uri, vibe, tok, t) ==
    IF ul.count >= RATE_LIMIT_MAX_REQUESTS THEN RateLimited(q, ul, t)
    ELSE IF uri # "track" THEN Finish(q, "invalid_request", 400)
    ELSE Enter([q EXCEPT !.lim = ref], "features", tok, t)

\* POST /api/queue from checkRateLimit to its first await, for a request q
\* whose userLimit object is ul, held under the reference ref
EnqueueEntry(q, ul, ref, uri, vibe, tok, t) ==
    IF ul.count >= RATE_LIMIT_MAX_REQUESTS THEN RateLimited(q, ul, t)
    ELSE IF uri # "track" THEN Finish(q, "invalid_request", 400)
    ELSE IF vibe.settings.enabled
    THEN Enter([q EXCEPT !.lim = ref], "features", tok, t)
    ELSE EnterAppend([q EXCEPT !.lim = ref], tok, t)

\* a request is handled in the first slot that is free
Free(r) ==
    /\ reqs[r].pc = "idle"
    /\ \A p \in Reqs : p < r => reqs[p].pc # "idle"

NewReq(kind, c) ==
    [IdleReq EXCEPT !.kind = kind, !.client = c, !.lockout = hist.rejected]

\* POST /api/queue arrives from client c
StartEnqueue(r, c, uri) ==
    LET ul == UserLimit(rateLimitStore, limObjs, c, now)
        ref == Reserved(rateLimitStore, limObjs, reqs, c, now)
        objs == [limObjs EXCEPT ![ref] = ul]
        q == EnqueueEntry(NewReq("enqueue", c), ul, ref, uri, currentVibe,
                          hostTokens, now)
        rq == [reqs EXCEPT ![r] = q]
    IN  /\ Free(r)
        /\ reqs' = CanonicalReqs(rateLimitStore, rq)
        /\ limObjs' = Collect(objs, rateLimitStore, rq)
        /\ UNCHANGED <<now, hostTokens, rateLimitStore, oauthStateStore,
                       currentVibe, nextState, cbInFlight>>

\* a read-through route arrives (now-playing, queue, search)
StartRead(r) ==
    /\ Free(r)
    /\ reqs' = [reqs EXCEPT ![r] = EnterLast(NewReq("read", NULL), "read",
                                             hostTokens, now)]
    /\ UNCHANGED <<now, hostTokens, rateLimitStore, limObjs, oauthStateStore,
                   currentVibe, nextState, cbInFlight>>

\* a rate-limit status that reports the difference as it is
PeekRemainingUnclamped(count) == RATE_LIMIT_MAX_REQUESTS - count

\* Math.max(0, RATE_LIMIT_MAX_REQUESTS - userLimit.count)
PeekRemaining(count) == Max(0, RATE_LIMIT_MAX_REQUESTS - count)

\* the answer of GET /api/rate-limit to client c
Peeked(q, store, objs, c, t) ==
    IF (IF store[c] = NULL THEN TRUE
        ELSE t - objs[store[c]].windowStart >= RATE_LIMIT_WINDOW_MS)
    THEN Finish([q EXCEPT !.remaining = RATE_LIMIT_MAX_REQUESTS,
                          !.resetAt = NULL], "peeked", 200)
    ELSE Finish([q EXCEPT
                   !.remaining = PeekRemaining(objs[store[c]].count),
                   !.resetAt = objs[store[c]].windowStart + RATE_LIMIT_WINDOW_MS],
                "peeked", 200)

\* GET /api/rate-limit arrives from client c
RateLimit(r, c) ==
    /\ Free(r)
    /\ reqs' = [reqs EXCEPT ![r] = Peeked(NewReq("peek", c), rateLimitStore,
                                          limObjs, c, now)]
    /\ UNCHANGED <<now, hostTokens, rateLimitStore, limObjs, oauthStateStore,
                   currentVibe, nextState, cbInFlight>>

\* an enqueue that takes the append's refusal for the request's own fault
ReturnedAppendRejecting(q, a, objs) ==
    IF a.status = 204
    THEN Finish([q EXCEPT
                   !.remaining = RATE_LIMIT_MAX_REQUESTS - (objs[q.lim].count + 1),
                   !.resetAt = objs[q.lim].windowStart + RATE_LIMIT_WINDOW_MS],
                "added", 200)
    ELSE Finish(q, "invalid_request", 400)

\* an enqueue that reports every refusal of the append alike
ReturnedAppendGeneric(q, a, objs) ==
    IF a.status = 204
    THEN Finish([q EXCEPT
                   !.remaining = RATE_LIMIT_MAX_REQUESTS - (objs[q.lim].count + 1),
                   !.resetAt = objs[q.lim].windowStart + RATE_LIMIT_WINDOW_MS],
                "added", 200)
    ELSE IF ~Ok(a.status) THEN Finish(q, "upstream_failed", a.status)
    ELSE Finish(q, "added_uncounted", 200)

\* the answer to the append makes the enqueue commit its reservation
Commits(status) == status = 204

\* the enqueue route's answer to what the append's spotifyFetch returned
ReturnedAppend(q, a, objs) ==
    IF Commits(a.status)
    THEN Finish([q EXCEPT
                   !.remaining = RATE_LIMIT_MAX_REQUESTS - (objs[q.lim].count + 1),
                   !.resetAt = objs[q.lim].windowStart + RATE_LIMIT_WINDOW_MS],
                "added", 200)
    ELSE IF ~Ok(a.status)
    THEN IF a.status = 404 THEN Finish(q, "no_device", 404)
         ELSE Finish(q, "upstream_failed", a.status)
    ELSE Finish(q, "added_uncounted", 200)

\* spotifyFetch returned the answer a to its caller
Returned(q, a, objs, vibe, tok, t) ==
    CASE q.stage \in VibeStages -> ReturnedVibe(q, q.stage, a, vibe, tok, t)
      [] q.stage = "append" -> ReturnedAppend(q, a, objs)
      [] OTHER -> ReturnedRead(q, a)

\* spotifyFetch goes on to the reactive refresh, or throws for lack of a
\* refresh token
Reactive(q, tok, t) ==
    IF tok.refreshToken = "null"
    THEN Thrown([q EXCEPT !.refreshErr = "No refresh token available"],
                q.stage, "No refresh token available", tok, t)
    ELSE [q EXCEPT !.pc = "refresh_re", !.nReactive = @ + 1]

\* a spotifyFetch that refreshes and retries on every 401, the retry's too
AnsweredRepeating(q, a, objs, vibe, tok, t) ==
    IF a.neterror THEN Thrown(q, q.stage, "fetch failed", tok, t)
    ELSE IF a.status = 401 THEN Reactive(q, tok, t)
    ELSE Returned(q, a, objs, vibe, tok, t)

\* the request after the answer a to its endpoint request: to the first
\* dispatch (pc "fetch") or to the retry (pc "retry")
Answered(q, a, objs, vibe, tok, t) ==
    IF a.neterror THEN Thrown(q, q.stage, "fetch failed", tok, t)
    ELSE IF q.pc = "fetch" /\ a.status = 401 THEN Reactive(q, tok, t)
    ELSE Returned(q, a, objs, vibe, tok, t)

\* an enqueue that counts the request whatever the append is answered
CommittingAnyStatus(q, a) ==
    /\ q.stage = "append"
    /\ ~a.neterror
    /\ ~(q.pc = "fetch" /\ a.status = 401)

\* the answer a is one to which the enqueue q commits
Committing(q, a) ==
    /\ q.stage = "append"
    /\ ~a.neterror
    /\ ~(q.pc = "fetch" /\ a.status = 401)
    /\ Commits(a.status)

\* the answer a is one to which the enqueue q reports the track added
Adding(q, a) ==
    /\ q.stage = "append"
    /\ ~a.neterror
    /\ ~(q.pc = "fetch" /\ a.status = 401)
    /\ Ok(a.status)

\* a commit that writes every client's count under one key
KeyShared(q) == 1

\* req.rateLimit.ip: the key under which the enqueue q commits
Key(q) == q.client

\* an endpoint request of request r is answered
FetchAnswer(r, a) ==
    LET q == reqs[r]
        c == Key(q)
        rq == [reqs EXCEPT ![r] =
                  Answered(q, a, limObjs, currentVibe, hostTokens, now)]
        store == IF Committing(q, a)
                 THEN [rateLimitStore EXCEPT ![c] = q.lim]
                 ELSE rateLimitStore
        objs == IF Committing(q, a)
                THEN [limObjs EXCEPT ![q.lim].count = @ + 1]
                ELSE limObjs
    IN  /\ q.pc \in {"fetch", "retry"}
        /\ a \in Answers(q.stage) \cup CheckAnswers(q.stage)
        /\ reqs' = CanonicalReqs(store, rq)
        /\ rateLimitStore' = CanonicalStore(store)
        /\ limObjs' = Collect(objs, store, rq)
        /\ UNCHANGED <<now, hostTokens, oauthStateStore, currentVibe, nextState,
                       cbInFlight>>

\* the request after the answer to its refresh
AfterRefresh(q, ans, tok, t) ==
    IF RefreshThrows(ans) # ""
    THEN Thrown([q EXCEPT !.refreshErr = RefreshThrows(ans)], q.stage,
                RefreshThrows(ans), tok, t)
    ELSE IF q.pc = "refresh_pre"
    THEN Await(q, q.stage, "fetch")
    ELSE [q EXCEPT !.pc = "retry", !.nDispatch = @ + 1,
                   !.appendSent = IF q.stage = "append" THEN @ + 1 ELSE @]

\* the refresh of request r is answered
RefreshAnswer(r, ans, ei) ==
    LET q == reqs[r]
        tok == Refreshed(hostTokens, ans, ei, now)
        rq == [reqs EXCEPT ![r] = AfterRefresh(q, ans, tok, now)]
    IN  /\ q.pc \in {"refresh_pre", "refresh_re"}
        /\ hostTokens' = tok
        /\ reqs' = CanonicalReqs(rateLimitStore, rq)
        /\ limObjs' = Collect(limObjs, rateLimitStore, rq)
        /\ UNCHANGED <<now, rateLimitStore, oauthStateStore, currentVibe,
                       nextState, cbInFlight>>

\* the response of request r has been sent
Retire(r) ==
    /\ reqs[r].pc = "done"
    /\ reqs' = [reqs EXCEPT ![r] = IdleReq]
    /\ UNCHANGED <<now, hostTokens, rateLimitStore, limObjs, oauthStateStore,
                   currentVibe, nextState, cbInFlight>>

(***************************************************************************)
(* The history of a run.  The actions above leave hist alone; each         *)
(* specification records, next to its actions, what its properties read.   *)
(***************************************************************************)
Quiet == UNCHANGED hist

\* the query and the outcome of a callback's first segment; the exchanges
\* begun with each state token; whether one was begun on a record older than
\* ten minutes
ObserveCallback(st, code, err) ==
    LET entry == CallbackEntry(oauthStateStore, st, code, err)
        h == [hist EXCEPT !.cb = entry, !.cbState = st,
                          !.cbCoded = code /\ ~err]
    IN  hist' = IF entry = "exchange"
                THEN [h EXCEPT
                        !.exch[st] = @ + 1,
                        !.staleExch = @ \/ now - oauthStateStore[st] > TEN_MINUTES]
                ELSE h

\* the outcome of a callback's token exchange
ObserveExchange(ans) ==
    hist' = [hist EXCEPT
               !.cb = CASE ans = "ok" -> "authenticated"
                        [] ans = "rejected" -> "token_exchange_failed"
                        [] OTHER -> "server_error"]

\* a complete-login that succeeds ends the time in which a refresh has been
\* rejected
ObserveRelogin(ans) ==
    hist' = [hist EXCEPT !.rejected = IF ans = "ok" THEN FALSE ELSE @]

\* a refresh has been rejected and no complete-login has succeeded since;
\* the call of request r dispatches on the answer to its proactive refresh
ObserveRefresh(r, ans) ==
    hist' = [hist EXCEPT
               !.rejected = @ \/ ans = "rejected",
               !.viaRefresh[r] = /\ reqs[r].pc = "refresh_pre"
                                 /\ ans \in {"ok", "ok_rotated"}]

\* the endpoint request of request r is answered: its call has left the
\* dispatch that followed a proactive refresh
ObserveAnswer(r) ==
    hist' = [hist EXCEPT !.viaRefresh[r] = FALSE]

\* the timestamps of t's last hour, t included
LastHour(seq, t) ==
    SelectSeq(seq, LAMBDA x : t - x < RATE_LIMIT_WINDOW_MS)

\* when the enqueues of each client added a track, over the last hour
ObserveAdded(r, a) ==
    hist' = IF Adding(reqs[r], a)
            THEN [hist EXCEPT
                    !.succ[reqs[r].client] = LastHour(Append(@, now), now)]
            ELSE hist

(***************************************************************************)
(* Specifications                                                          *)
(***************************************************************************)
\* The handshake: begin-login and complete-login, from the server's start.
\* No other handler reads or writes oauthStateStore.
NextHandshake ==
    \/ Tick(TimeStep, MaxTime * TimeStep) /\ Quiet
    \/ Login /\ Quiet
    \/ \E st \in (1..nextState) \cup {NULL}, code \in BOOLEAN, err \in BOOLEAN :
          Callback(st, code, err) /\ ObserveCallback(st, code, err)
    \/ \E ans \in ExchangeAnswers, ei \in ExpiresIn :
          CallbackAnswer(ans, ei) /\ ObserveExchange(ans)
    \/ Logout /\ Quiet

SpecHandshake == Init /\ [][NextHandshake]_vars

\* The state once the host has begun logins and the callbacks have sent
\* their token exchanges, which are still to be answered
Exchanging == Min(MaxStates, MaxCallbacks)
InitExchanging ==
    /\ now = 0
    /\ hostTokens = NoTokens
    /\ rateLimitStore = [c \in Clients |-> NULL]
    /\ limObjs = [o \in ObjIds |-> FreeObj]
    /\ oauthStateStore = [s \in States |-> NULL]
    /\ currentVibe = [preset |-> "off", settings |-> VIBE_PRESETS["off"]]
    /\ reqs = [r \in Reqs |-> IdleReq]
    /\ nextState = Exchanging
    /\ cbInFlight = Exchanging
    /\ hist = History(Exchanging, "exchange")

\* the count stored for client c is below cap
CountBelow(c, cap) ==
    IF rateLimitStore[c] = NULL THEN TRUE
    ELSE limObjs[rateLimitStore[c]].count < cap

\* The credential: the routes that call the upstream API with the policy off,
\* logout and the completion of the logins
Next ==
    \/ Tick(TimeStep, MaxTime * TimeStep) /\ Quiet
    \/ \E ans \in ExchangeAnswers, ei \in ExpiresIn :
          CallbackAnswer(ans, ei) /\ ObserveRelogin(ans)
    \/ Logout /\ Quiet
    \/ \E r \in Reqs, c \in OneClient, uri \in Uris :
          CountBelow(c, MaxSucc) /\ StartEnqueue(r, c, uri) /\ Quiet
    \/ \E r \in Reqs : StartRead(r) /\ Quiet
    \/ \E r \in Reqs : \E a \in Answers(reqs[r].stage) :
          FetchAnswer(r, a) /\ ObserveAnswer(r)
    \/ \E r \in Reqs, ans \in RefreshAnswers, ei \in ExpiresIn :
          RefreshAnswer(r, ans, ei) /\ ObserveRefresh(r, ans)
    \/ \E r \in Reqs : Retire(r) /\ Quiet

Spec == InitExchanging /\ [][Next]_vars

\* The state of an authenticated host whose token outlasts the run
InitAuthenticated ==
    /\ now = 0
    /\ hostTokens = [accessToken |-> "access", refreshToken |-> "refresh",
                     expiresAt |-> 4 * RATE_LIMIT_WINDOW_MS]
    /\ rateLimitStore = [c \in Clients |-> NULL]
    /\ limObjs = [o \in ObjIds |-> FreeObj]
    /\ oauthStateStore = [s \in States |-> NULL]
    /\ currentVibe = [preset |-> "off", settings |-> VIBE_PRESETS["off"]]
    /\ reqs = [r \in Reqs |-> IdleReq]
    /\ nextState = 1
    /\ cbInFlight = 0
    /\ hist = History(1, "authenticated")

\* The admission pipeline: enqueues under a policy that set-vibe changes; the
\* hour passes once a client has a window to outlast
NextVibe ==
    \/ /\ \E c \in Clients : rateLimitStore[c] # NULL
       /\ Tick(RATE_LIMIT_WINDOW_MS, RATE_LIMIT_WINDOW_MS) /\ Quiet
    \/ \E preset \in VibeInputs, custom \in CustomInputs :
          SetVibe(preset, custom) /\ Quiet
    \/ \E r \in Reqs, c \in OneClient, uri \in Uris :
          /\ IF Lapsed(rateLimitStore, limObjs, c, now) THEN TRUE
             ELSE CountBelow(c, MaxSucc)
          /\ StartEnqueue(r, c, uri) /\ Quiet
    \/ \E r \in Reqs : \E a \in Answers(reqs[r].stage) : FetchAnswer(r, a) /\ Quiet
    \/ \E r \in Reqs, ans \in RefreshAnswers, ei \in ExpiresIn :
          RefreshAnswer(r, ans, ei) /\ Quiet
    \/ \E r \in Reqs : Retire(r) /\ Quiet

SpecVibe == InitAuthenticated /\ [][NextVibe]_vars

\* the answers to the append in the quota's specification: the track is added
\* and counted, or the append fails
QuotaAnswers == {Answer(st, NoFeatures, FALSE) : st \in {204, 404, 500}}

\* client c has had fewer than cap of its enqueues add a track in the last hour
Below(c, cap) == Len(hist.succ[c]) < cap

\* The quota: enqueues of an authenticated host with the policy off, over
\* more than one window
NextQuota ==
    \/ Tick(3 * TimeStep, MaxTime * 3 * TimeStep) /\ Quiet
    \/ \E r \in Reqs, c \in OneClient, uri \in Uris :
          Below(c, RATE_LIMIT_MAX_REQUESTS + MaxSucc) /\ StartEnqueue(r, c, uri)
          /\ Quiet
    \/ \E r \in Reqs : \E a \in QuotaAnswers : FetchAnswer(r, a) /\ ObserveAdded(r, a)
    \/ \E r \in Reqs : Retire(r) /\ Quiet

SpecQuota == InitAuthenticated /\ [][NextQuota]_vars

(***************************************************************************)
(* Properties                                                              *)
(***************************************************************************)
\* the {count, windowStart} stored for client c, or the free object for none
Entry(c) ==
    IF rateLimitStore[c] = NULL THEN FreeObj ELSE limObjs[rateLimitStore[c]]

\* C1: the count stored for a client never exceeds RATE_LIMIT_MAX_REQUESTS,
\* under any interleaving of the client's enqueues.
C1_StoredCountWithinLimit ==
    \A c \in Clients : Entry(c).count <= RATE_LIMIT_MAX_REQUESTS

\* C2: in every interval of one hour at most RATE_LIMIT_MAX_REQUESTS enqueues
\* of a client add a track.  hist.succ[c] holds the times of the additions in
\* the hour that ends with the latest one.
C2_RollingHourWithinLimit ==
    \A c \in Clients : Len(hist.succ[c]) <= RATE_LIMIT_MAX_REQUESTS

\* C3: token refresh is single-flight: at most one refresh request is awaiting
\* the token endpoint's answer at any time.
RefreshesInFlight ==
    Cardinality({r \in Reqs : reqs[r].pc \in {"refresh_pre", "refresh_re"}})
C3_SingleFlight == RefreshesInFlight <= 1

\* request r takes a step: its handler runs one segment
StepOf(r) ==
    reqs'[r].pc # reqs[r].pc \/ reqs'[r].stage # reqs[r].stage

\* request r sends its response in this step, with the outcome o
Ends(r, o) ==
    reqs[r].pc \notin {"idle", "done"} /\ reqs'[r].pc = "done"
    /\ reqs'[r].outcome = o

\* the stored {count, windowStart} of every client
Entries == [c \in Clients |-> Entry(c)]

\* C4: no segment of an enqueue changes a stored {count, windowStart} but the
\* one that ends the enqueue with the track added and counted; so an enqueue
\* that ends in a vibe rejection, an upstream failure or a thrown error has
\* left its client's entry as it was.
C4_RejectedKeepsQuota ==
    [][\A r \in Reqs :
          (StepOf(r) /\ ~Ends(r, "added")) => Entries' = Entries]_vars

\* C4's case: an enqueue has been rejected for its vibe, another has failed
\* upstream, and the client's entry holds a count
C4_Witness ==
    \E r, p \in Reqs :
        /\ reqs[r].pc = "done" /\ reqs[r].outcome = "vibe_mismatch"
        /\ reqs[p].pc = "done" /\ reqs[p].outcome = "upstream_failed"
        /\ Entry(reqs[r].client).count > 0

\* C5: an enqueue that answers success has counted the request and its answer
\* carries the remaining quota, whatever 2xx the append was answered with.
C5_SuccessCommits ==
    \A r \in Reqs :
        (reqs[r].pc = "done" /\ reqs[r].outcome \in {"added", "added_uncounted"})
        => reqs[r].outcome = "added" /\ reqs[r].remaining # NULL

\* a callback's first segment is taken in this step
CallbackStep == hist' # hist /\ cbInFlight' >= cbInFlight

\* C6: a state token begins at most one token exchange, and a callback that
\* carries a code and a state token that has begun one ends in
\* state_mismatch and begins none.
C6_ConsumedOnce ==
    /\ [](\A s \in States : hist.exch[s] <= 1)
    /\ [][\A s \in States :
             (CallbackStep /\ hist'.cbState = s /\ hist'.cbCoded
              /\ hist.exch[s] >= 1)
             => (hist'.cb = "state_mismatch" /\ hist'.exch = hist.exch)]_vars

\* C6's case: a second callback with a state token that has begun an exchange
C6_Witness ==
    /\ hist.cb = "state_mismatch" /\ hist.cbCoded
    /\ hist.cbState # NULL
    /\ hist.exch[IF hist.cbState = NULL THEN 1 ELSE hist.cbState] = 1

\* C7: no callback begins a token exchange on a record older than ten minutes.
C7_ExpiryEnforced == ~hist.staleExch

\* C8: when the token endpoint answers a refresh with a non-ok status,
\* refreshAccessToken throws with hostTokens cleared.
C8_RejectedClears ==
    [][\A r \in Reqs :
          (reqs[r].pc \in {"refresh_pre", "refresh_re"} /\ StepOf(r)
           /\ reqs'[r].refreshErr \in {"Failed to refresh token", "SyntaxError"})
          => hostTokens' = NoTokens]_vars

\* the outcomes of a request that is turned away before it needs a token
BeforeToken == {"rate_limited", "invalid_request"}

\* C9: a request that begins after a refresh was rejected, with no
\* complete-login since, dispatches nothing upstream, and unless it is turned
\* away before it needs a token it ends as not authenticated.
C9_LockedOut ==
    \A r \in Reqs :
        reqs[r].lockout =>
            /\ reqs[r].nDispatch = 0 /\ reqs[r].appendSent = 0
            /\ reqs[r].pc \in {"idle", "done"}
            /\ reqs[r].pc = "done" =>
                   reqs[r].outcome \in BeforeToken \cup {"not_authenticated"}

\* C10: one call of spotifyFetch dispatches its endpoint request at most twice
\* and refreshes reactively at most once: the answer to the retry ends the call.
C10_OneRetry ==
    /\ [](\A r \in Reqs : reqs[r].nDispatch <= 2 /\ reqs[r].nReactive <= 1)
    /\ [][\A r \in Reqs :
             (reqs[r].pc = "retry" /\ StepOf(r))
             => reqs'[r].pc \in {"done", "fetch", "refresh_pre"}]_vars

\* C10's case: the retry of an append was answered 401 and the call returned
C10_Witness ==
    \E r \in Reqs :
        /\ reqs[r].pc = "done" /\ reqs[r].outcome = "upstream_failed"
        /\ reqs[r].status = 401

\* C11: when the retry that follows a reactive refresh is answered 401 too,
\* the request fails and hostTokens is left cleared.
C11_SecondUnauthorizedClears ==
    [][\A r \in Reqs :
          (reqs[r].pc = "retry" /\ reqs'[r].pc = "done" /\ reqs'[r].status = 401)
          => hostTokens' = NoTokens]_vars

\* the call of request r sends its endpoint request for the first time
FirstDispatch(r) ==
    /\ reqs'[r].pc = "fetch"
    /\ reqs[r].pc # "fetch" \/ reqs'[r].stage # reqs[r].stage

\* request r arrives in this step
Arrives(r) == reqs[r].pc = "idle" /\ reqs'[r].pc # "idle"

\* C12: a call entered with now >= expiresAt - 60 s dispatches nothing before
\* its refresh is answered, and every first dispatch of a call carries a token
\* that is more than 60 s from its expiry.
C12_ProactiveRefresh ==
    /\ [][\A r \in Reqs :
             (/\ Arrives(r)
              /\ hostTokens.expiresAt # NULL
              /\ now >= hostTokens.expiresAt - 60000)
             => /\ reqs'[r].pc \in {"refresh_pre", "done"}
                /\ reqs'[r].nDispatch = 0 /\ reqs'[r].appendSent = 0]_vars
    /\ [][\A r \in Reqs :
             FirstDispatch(r)
             => /\ hostTokens'.accessToken # "null"
                /\ hostTokens'.expiresAt # NULL
                /\ now' < hostTokens'.expiresAt - 60000]_vars

\* C12's case: a request has dispatched on the answer to its proactive refresh
C12_Witness ==
    \E r \in Reqs : reqs[r].pc = "fetch" /\ hist.viaRefresh[r]

\* C13: an enqueue whose refresh was rejected, or that had no refresh token to
\* refresh with, is answered 401 Not authenticated.
C13_RefreshFailureIsAuthError ==
    \A r \in Reqs :
        (/\ reqs[r].pc = "done" /\ reqs[r].kind = "enqueue"
         /\ reqs[r].refreshErr \in {"Failed to refresh token",
                                    "No refresh token available"})
        => reqs[r].outcome = "not_authenticated"

(***************************************************************************)
(* The reserve step and the rate-limit status                              *)
(***************************************************************************)
\* the enqueue arriving in slot r: its URI, its time, and whether client c
\* has no window running at that time
ObserveArrival(r, c, uri) ==
    hist' = [hist EXCEPT
               !.arrival[r] =
                  [uri |-> uri, at |-> now,
                   fresh |-> IF rateLimitStore[c] = NULL THEN TRUE
                             ELSE now >= Entry(c).windowStart + 3600000]]

\* the URI of the enqueue arriving in slot r
ObserveUri(r, uri) ==
    hist' = [hist EXCEPT !.arrival[r] = [NoArrival EXCEPT !.uri = uri]]

\* the response of slot r has been sent: nothing is remembered of the request
ObserveRetire(r) ==
    hist' = [hist EXCEPT !.arrival[r] = NoArrival]

\* the answers in the reserve step's specification: those of the quota's, and
\* an audio profile
ReserveAnswers == QuotaAnswers \cup {Answer(200, b, FALSE) : b \in Profiles}

\* The reserve step: enqueues and rate-limit statuses of an authenticated
\* host, with the policy off or set to a preset, over more than one window
NextReserve ==
    \/ Tick(3 * TimeStep, MaxTime * 3 * TimeStep) /\ Quiet
    \/ \E preset \in {"off", "party"} : SetVibe(preset, NoCustom) /\ Quiet
    \/ \E r \in Reqs, c \in OneClient, uri \in Uris :
          StartEnqueue(r, c, uri) /\ ObserveUri(r, uri)
    \/ \E r \in Reqs, c \in OneClient : RateLimit(r, c) /\ Quiet
    \/ \E r \in Reqs : \E a \in ReserveAnswers : FetchAnswer(r, a) /\ Quiet
    \/ \E r \in Reqs : Retire(r) /\ ObserveRetire(r)

SpecReserve == InitAuthenticated /\ [][NextReserve]_vars

\* no request is being handled
Alone == \A p \in Reqs : reqs[p].pc \in {"idle", "done"}

\* One enqueue at a time: each arrives after the one before it was answered
NextSequential ==
    \/ Tick(3 * TimeStep, MaxTime * 3 * TimeStep) /\ Quiet
    \/ \E r \in Reqs, c \in OneClient, uri \in Uris :
          Alone /\ StartEnqueue(r, c, uri) /\ ObserveArrival(r, c, uri)
    \/ \E r \in Reqs : \E a \in QuotaAnswers : FetchAnswer(r, a) /\ Quiet
    \/ \E r \in Reqs : Retire(r) /\ ObserveRetire(r)

SpecSequential == InitAuthenticated /\ [][NextSequential]_vars

\* C14: an enqueue whose URI is missing or is no track URI is answered
\* InvalidRequest (400), whatever the client's quota.
C14_ValidationFirst ==
    \A r \in Reqs :
        (/\ reqs[r].pc = "done" /\ reqs[r].kind = "enqueue"
         /\ hist.arrival[r].uri \in {"missing", "malformed"})
        => reqs[r].outcome = "invalid_request"

\* request r sends its response in this step, and it is a 400 or a 429
EndsLocally(r) ==
    /\ reqs[r].pc # "done" /\ reqs'[r].pc = "done"
    /\ reqs'[r].outcome \in {"invalid_request", "rate_limited"}

\* C15: an enqueue that ends in InvalidRequest or QuotaExceeded is answered in
\* the segment in which it arrived, before any await: it has called nothing
\* upstream, and rateLimitStore is as it was.
C15_LocalFailures ==
    [][\A r \in Reqs :
          EndsLocally(r)
          => /\ reqs[r].pc = "idle"
             /\ reqs'[r].appendSent = 0
             /\ rateLimitStore' = rateLimitStore
             /\ Entries' = Entries]_vars

\* C15's case: one enqueue was turned away by the quota, one for its URI,
\* with the policy on
C15_Witness ==
    \E r, p \in Reqs :
        /\ reqs[r].pc = "done" /\ reqs[r].outcome = "rate_limited"
        /\ reqs[p].pc = "done" /\ reqs[p].outcome = "invalid_request"
        /\ currentVibe.settings.enabled

\* C18: the reserve step leaves rateLimitStore as it was: no segment in which
\* an enqueue arrives changes the store or a stored {count, windowStart}.
C18_ReserveKeepsStore ==
    [][\A r \in Reqs :
          (Arrives(r) /\ reqs'[r].kind = "enqueue")
          => (rateLimitStore' = rateLimitStore /\ Entries' = Entries)]_vars

\* C18's case: an enqueue was granted a reservation in a new window while the
\* store still holds the client's lapsed window
C18_Witness ==
    \E r \in Reqs :
        /\ reqs[r].pc = "fetch" /\ reqs[r].kind = "enqueue"
        /\ rateLimitStore[reqs[r].client] # NULL
        /\ reqs[r].lim # rateLimitStore[reqs[r].client]
        /\ Entry(reqs[r].client).count > 0
        /\ now >= Entry(reqs[r].client).windowStart + 3600000

\* the rate-limit status the store calls for, for client c at time t
Status(c, t) ==
    IF rateLimitStore[c] = NULL
    THEN [remaining |-> 10, resetAt |-> NULL]
    ELSE IF t - Entry(c).windowStart >= 3600000
    THEN [remaining |-> 10, resetAt |-> NULL]
    ELSE [remaining |-> IF Entry(c).count >= 10 THEN 0 ELSE 10 - Entry(c).count,
          resetAt |-> Entry(c).windowStart + 3600000]

\* C19: GET /api/rate-limit changes nothing in rateLimitStore; it reports 10
\* remaining for a client with no entry or a lapsed window, and otherwise
\* max(0, 10 - count) with resetAt = windowStart + 1 hour.
C19_PeekIsPure ==
    [][\A r \in Reqs :
          (Arrives(r) /\ reqs'[r].kind = "peek")
          => /\ rateLimitStore' = rateLimitStore /\ Entries' = Entries
             /\ reqs'[r].pc = "done"
             /\ reqs'[r].remaining = Status(reqs'[r].client, now).remaining
             /\ reqs'[r].resetAt = Status(reqs'[r].client, now).resetAt]_vars

\* C19's case: a status was asked for by a client whose stored count is above
\* the limit
C19_Witness ==
    \E r \in Reqs :
        /\ reqs[r].pc = "done" /\ reqs[r].kind = "peek"
        /\ reqs[r].remaining = 0
        /\ Entry(reqs[r].client).count > 10

\* the enqueue arriving in slot r finds the window of its client c full
Full(c) ==
    IF rateLimitStore[c] = NULL THEN FALSE
    ELSE Entry(c).count >= 10 /\ now < Entry(c).windowStart + 3600000

\* C20: with one enqueue at a time, an enqueue is answered QuotaExceeded, with
\* resetAt = windowStart + 1 hour, exactly when it arrives before that time at
\* a window holding 10; and an enqueue that adds its track leaves count 1 and
\* its own arrival time as windowStart when it arrived with no window running,
\* and one more in the window it found otherwise.
C20_SequentialWindow ==
    /\ [][\A r \in Reqs :
             (Arrives(r) /\ reqs'[r].kind = "enqueue")
             => IF Full(reqs'[r].client)
                THEN /\ reqs'[r].pc = "done"
                     /\ reqs'[r].outcome = "rate_limited"
                     /\ reqs'[r].resetAt =
                           Entry(reqs'[r].client).windowStart + 3600000
                ELSE reqs'[r].outcome # "rate_limited"]_vars
    /\ [][\A r \in Reqs :
             Ends(r, "added")
             => LET c == reqs[r].client
                    a == hist.arrival[r]
                IN  IF a.fresh
                    THEN /\ Entries'[c].count = 1
                         /\ Entries'[c].windowStart = a.at
                    ELSE /\ Entries'[c].count = Entries[c].count + 1
                         /\ Entries'[c].windowStart = Entries[c].windowStart]_vars

\* C20's case: the 11th enqueue of the first window was answered
\* QuotaExceeded with resetAt one hour after the first, and the enqueue that
\* arrived at that time has started a new window
C20_Witness ==
    \E r, p \in Reqs :
        /\ reqs[r].pc = "done" /\ reqs[r].outcome = "rate_limited"
        /\ reqs[r].resetAt = 3600000
        /\ reqs[p].pc = "done" /\ reqs[p].outcome = "added"
        /\ hist.arrival[p].at = 3600000
        /\ Entry(reqs[p].client).count = 1
        /\ Entry(reqs[p].client).windowStart = 3600000

(***************************************************************************)
(* The classification                                                      *)
(***************************************************************************)
\* the answer brings no audio profile; no track that is playing
Unfetched(a) == a.neterror \/ a.status < 200 \/ a.status > 299 \/ ~a.body.def
NothingPlaying(a) ==
    a.neterror \/ a.status = 204 \/ a.status < 200 \/ a.status > 299 \/ ~a.item

\* the profile af lies outside a range that th defines
Outside(af, th) ==
    \E d \in {"energy", "valence", "tempo", "danceability"} :
        th[d].def /\ (af[d] < th[d].min \/ af[d] > th[d].max)

\* what a vibe stage is missing when its call fails
StageNote(stage) ==
    CASE stage = "features" -> "no_profile"
      [] stage = "nowplaying" -> "nothing_playing"
      [] stage = "reffeatures" -> "no_reference"
      [] OTHER -> "none"

\* what the answer a tells of the classification of request q, old being what
\* was known: the data that is missing, or the verdict on the data
Verdict(q, a, vibe, tok, old) ==
    IF a.neterror THEN (IF q.stage \in VibeStages THEN StageNote(q.stage) ELSE old)
    ELSE IF q.pc = "fetch" /\ a.status = 401
    THEN IF tok.refreshToken = "null" /\ q.stage \in VibeStages
         THEN StageNote(q.stage) ELSE old
    ELSE CASE q.stage = "features" ->
                IF Unfetched(a) THEN "no_profile"
                ELSE IF ~vibe.settings.enabled THEN "match"
                ELSE IF vibe.settings.dynamic THEN old
                ELSE IF Outside(a.body, vibe.settings) THEN "mismatch"
                ELSE "match"
           [] q.stage = "nowplaying" ->
                IF NothingPlaying(a) THEN "nothing_playing" ELSE old
           [] q.stage = "reffeatures" ->
                IF Unfetched(a) THEN "no_reference"
                ELSE IF ~vibe.settings.tolerance.def THEN old
                ELSE IF Outside(q.af, DynamicThresholds(a.body,
                                                        vibe.settings.tolerance))
                THEN "mismatch"
                ELSE "match"
           [] OTHER -> old

\* the classification of the request in slot r, as its answers tell it
ObserveVerdict(r, a) ==
    hist' = [hist EXCEPT
               !.note[r] = Verdict(reqs[r], a, currentVibe, hostTokens, @)]

\* a refresh that fails leaves the vibe stage of slot r without its data
ObserveRefreshVerdict(r, ans) ==
    hist' = [hist EXCEPT
               !.note[r] = IF /\ ans \notin {"ok", "ok_rotated"}
                              /\ reqs[r].stage \in VibeStages
                           THEN StageNote(reqs[r].stage) ELSE @]

\* the response of slot r has been sent: its classification is forgotten
ObserveRetired(r) ==
    hist' = [hist EXCEPT !.note[r] = "none"]

\* The classification: enqueues under a policy that set-vibe changes, within
\* one window
NextClassify ==
    \/ \E preset \in VibeInputs, custom \in CustomInputs :
          SetVibe(preset, custom) /\ Quiet
    \/ \E r \in Reqs, c \in OneClient, uri \in Uris :
          CountBelow(c, MaxSucc) /\ StartEnqueue(r, c, uri) /\ Quiet
    \/ \E r \in Reqs : \E a \in Answers(reqs[r].stage) :
          FetchAnswer(r, a) /\ ObserveVerdict(r, a)
    \/ \E r \in Reqs, ans \in RefreshAnswers, ei \in ExpiresIn :
          RefreshAnswer(r, ans, ei) /\ ObserveRefreshVerdict(r, ans)
    \/ \E r \in Reqs : Retire(r) /\ ObserveRetired(r)

SpecClassify == InitAuthenticated /\ [][NextClassify]_vars

\* C16: an enqueue answered VibeRejected has dispatched no append; an enqueue
\* that arrives under an enabled policy dispatches no append in the segment
\* of its arrival, and one whose classification found a mismatch dispatches
\* none at all and is answered VibeRejected.
C16_AppendAfterMatch ==
    /\ [](\A r \in Reqs :
             /\ (reqs[r].pc = "done" /\ reqs[r].outcome = "vibe_mismatch")
                => reqs[r].appendSent = 0
             /\ hist.note[r] = "mismatch"
                => /\ reqs[r].appendSent = 0
                   /\ reqs[r].pc = "done" /\ reqs[r].outcome = "vibe_mismatch")
    /\ [][\A r \in Reqs :
             (/\ Arrives(r) /\ reqs'[r].kind = "enqueue"
              /\ currentVibe.settings.enabled)
             => reqs'[r].appendSent = 0]_vars

\* C16's case: one enqueue was rejected for its vibe, and another has sent its
\* append after its classification found a match
C16_Witness ==
    \E r, p \in Reqs :
        /\ reqs[r].pc = "done" /\ reqs[r].outcome = "vibe_mismatch"
        /\ hist.note[r] = "mismatch"
        /\ hist.note[p] = "match" /\ reqs[p].appendSent > 0

\* the data a classification may lack
FailOpen == {"no_profile", "nothing_playing", "no_reference"}

\* the outcomes of an enqueue that went on to its append call
AfterAppendCall ==
    {"added", "added_uncounted", "no_device", "upstream_failed",
     "not_authenticated", "internal_error"}

\* C17: an enqueue whose candidate profile could not be fetched, or for which
\* nothing was playing, or whose reference profile could not be fetched, goes
\* on to the append call and is never answered VibeRejected.
C17_FailOpen ==
    \A r \in Reqs :
        hist.note[r] \in FailOpen
        => IF reqs[r].pc = "done"
           THEN reqs[r].outcome \in AfterAppendCall
           ELSE reqs[r].stage = "append"

\* C17's case: in dynamic mode one enqueue has sent its append without a
\* reference profile, and for another nothing was playing
C17_Witness ==
    \E r, p \in Reqs :
        /\ hist.note[r] = "no_reference" /\ reqs[r].appendSent > 0
        /\ hist.note[p] = "nothing_playing" /\ reqs[p].appendSent > 0

(***************************************************************************)
(* Calls that are never answered                                           *)
(***************************************************************************)
\* request r awaits the answer to an upstream call
Pending(r) == reqs[r].pc \in {"fetch", "retry", "refresh_pre", "refresh_re"}

\* One enqueue at a time, with an upstream that may leave a call unanswered:
\* the server takes every step that is its own to take (it sends the
\* response it has prepared); the clock and the upstream are not bound to act
SpecPending ==
    /\ InitAuthenticated
    /\ [][NextSequential]_vars
    /\ \A r \in Reqs : WF_vars(Retire(r) /\ ObserveRetire(r))

\* C21: an enqueue that awaits the answer to an upstream call eventually sends
\* its response, even if the answer never comes.
C21_UnansweredCallEnds ==
    \A r \in Reqs : Pending(r) ~> (reqs[r].pc = "done")

(***************************************************************************)
(* The policy and the classification's reads                               *)
(***************************************************************************)
\* C22: an enqueue that arrives while the policy is off goes to the append
\* call, or ends, in the segment of its arrival and reads no profile and no
\* playing track: the candidate's profile is read only by an enqueue that
\* arrives under an enabled policy, the playing track only after that profile
\* under an enabled dynamic policy, the reference profile only after the
\* playing track.
C22_OffSkipsClassification ==
    [][\A r \in Reqs :
          /\ (Arrives(r) /\ reqs'[r].kind = "enqueue"
              /\ ~currentVibe.settings.enabled)
             => /\ reqs'[r].stage \notin VibeStages
                /\ reqs'[r].pc = "done" \/ reqs'[r].stage = "append"
          /\ (reqs'[r].stage = "features" /\ reqs[r].stage # "features")
             => (Arrives(r) /\ currentVibe.settings.enabled)
          /\ (reqs'[r].stage = "nowplaying" /\ reqs[r].stage # "nowplaying")
             => /\ reqs[r].stage = "features"
                /\ currentVibe.settings.enabled /\ currentVibe.settings.dynamic
          /\ (reqs'[r].stage = "reffeatures" /\ reqs[r].stage # "reffeatures")
             => reqs[r].stage = "nowplaying"]_vars

\* C22's case: with the policy off an enqueue has sent its append and nothing
\* was read for a classification
C22_Witness ==
    \E r \in Reqs :
        /\ reqs[r].kind = "enqueue" /\ reqs[r].pc = "fetch"
        /\ reqs[r].stage = "append" /\ reqs[r].appendSent = 1
        /\ hist.note[r] = "none"
        /\ currentVibe.preset = "off"

(***************************************************************************)
(* checkVibeMatch on the bounds of its ranges                              *)
(***************************************************************************)
\* what checkVibeMatch returns for the candidate af under the thresholds th
\* (ref: the reference profile of the dynamic mode)
CheckResult(af, ref, th, dyn) ==
    LET mismatches == Mismatches(af, th)
    IN  [done |-> TRUE, dynamic |-> dyn, matches |-> Len(mismatches) = 0,
         reason |-> IF Len(mismatches) > 0 THEN mismatches[1] ELSE "null",
         allReasons |-> mismatches, audioFeatures |-> af,
         referenceFeatures |-> ref, thresholds |-> th]

\* the vibe check of the request in slot r, made on the answer a
ObserveCheck(r, a) ==
    LET q == reqs[r]
        settings == currentVibe.settings
    IN  hist' = [hist EXCEPT
                   !.check[r] =
                      IF \/ a.neterror \/ ~Ok(a.status) \/ ~a.body.def
                         \/ ~settings.enabled
                      THEN @
                      ELSE IF q.stage = "features" /\ ~settings.dynamic
                      THEN CheckResult(a.body, NoFeatures,
                                       StaticThresholds(settings), FALSE)
                      ELSE IF q.stage = "reffeatures" /\ settings.tolerance.def
                      THEN CheckResult(q.af, a.body,
                                       DynamicThresholds(a.body, settings.tolerance),
                                       TRUE)
                      ELSE @]

\* the response of slot r has been sent: its vibe check is forgotten
ObserveChecked(r) ==
    hist' = [hist EXCEPT !.check[r] = NoCheck]

\* the policies of the checks: presets with ranges, the dynamic preset, and
\* custom settings that narrow one range and leave another out
CheckPresets == {"party", "chill", "match", "custom"}
CheckCustoms == {NoCustom, [energy |-> Range(60, 100), tempo |-> NoRange]}

\* no request is in a slot
AllIdle == \A p \in Reqs : reqs[p].pc = "idle"

\* The vibe check: one enqueue at a time, of candidates whose profiles lie on
\* and about the bounds of the policy's ranges
NextCheck ==
    \/ \E preset \in CheckPresets, custom \in CheckCustoms :
          SetVibe(preset, custom) /\ Quiet
    \/ \E r \in Reqs, c \in OneClient :
          AllIdle /\ StartEnqueue(r, c, "track") /\ Quiet
    \/ \E r \in Reqs : \E a \in CheckAnswers(reqs[r].stage) :
          FetchAnswer(r, a) /\ ObserveCheck(r, a)
    \/ \E r \in Reqs : Retire(r) /\ ObserveChecked(r)

SpecCheck == InitAuthenticated /\ [][NextCheck]_vars

\* the dimensions of a profile
Dimensions == {"energy", "valence", "tempo", "danceability"}

\* the value of dimension d lies strictly outside the range th configures
\* for it
Violated(af, th, d) ==
    th[d].def /\ (af[d] < th[d].min \/ af[d] > th[d].max)

\* C23: in static mode the check finds a mismatch exactly when some dimension
\* with a configured range has its value strictly below the range's min or
\* strictly above its max, and the enqueue is rejected exactly then.
C23_StaticStrictlyOutside ==
    \A r \in Reqs :
        LET k == hist.check[r]
        IN  (k.done /\ ~k.dynamic)
            => /\ ~k.matches <=>
                     \E d \in Dimensions :
                         Violated(k.audioFeatures, k.thresholds, d)
               /\ ~k.matches <=>
                     (reqs[r].pc = "done" /\ reqs[r].outcome = "vibe_mismatch")

\* C23's case: a candidate with its energy on the min of its range matched,
\* and its tempo, for which the custom settings leave the range out, gave no
\* reason
C23_Witness ==
    \E r \in Reqs :
        LET k == hist.check[r]
        IN  /\ k.done /\ ~k.dynamic /\ k.matches
            /\ k.thresholds.energy.def
            /\ k.audioFeatures.energy = k.thresholds.energy.min
            /\ ~k.thresholds.tempo.def /\ k.audioFeatures.tempo = 151
            /\ reqs[r].stage = "append"

\* the dimensions in the order of the reasons
Order == <<"energy", "valence", "tempo", "danceability">>

\* the wording of a reason: the dimension, and the bound its value violates
Wording(d, below) ==
    CASE d = "energy" ->
           IF below THEN "Energy is too mellow" ELSE "Energy is too intense"
      [] d = "valence" ->
           IF below THEN "Mood is too sad" ELSE "Mood is too upbeat"
      [] d = "tempo" ->
           IF below THEN "Tempo is too slow" ELSE "Tempo is too fast"
      [] d = "danceability" ->
           IF below THEN "Track is not danceable enough"
           ELSE "Track is too dancey"

\* the reasons of the violated dimensions, in that order
ExpectedReasons(af, th) ==
    LET violated == SelectSeq(Order, LAMBDA d : Violated(af, th, d))
    IN  [i \in 1..Len(violated) |->
            Wording(violated[i], af[violated[i]] < th[violated[i]].min)]

\* C24: the reasons of a check are those of its violated dimensions in the
\* order energy, valence, tempo, danceability, each worded after the bound
\* it violates, and the primary reason is the first of them; under the party
\* preset a candidate of energy 0.2 has the primary reason "Energy is too
\* mellow".
C24_ReasonOrder ==
    \A r \in Reqs :
        LET k == hist.check[r]
        IN  k.done
            => /\ k.allReasons = ExpectedReasons(k.audioFeatures, k.thresholds)
               /\ ~k.matches => k.reason = k.allReasons[1]
               /\ (/\ ~k.dynamic
                   /\ k.thresholds = StaticThresholds(VIBE_PRESETS["party"])
                   /\ k.audioFeatures.energy = 20)
                  => (~k.matches /\ k.reason = "Energy is too mellow")

\* C24's case: under the party preset a candidate of energy 0.2 that is also
\* too sad, too fast and not danceable enough was rejected with its four
\* reasons
C24_Witness ==
    \E r \in Reqs :
        LET k == hist.check[r]
        IN  /\ k.done /\ ~k.dynamic /\ Len(k.allReasons) = 4
            /\ k.thresholds = StaticThresholds(VIBE_PRESETS["party"])
            /\ k.audioFeatures.energy = 20
            /\ k.reason = "Energy is too mellow"
            /\ k.allReasons[3] = "Tempo is too fast"
            /\ reqs[r].outcome = "vibe_mismatch"

\* the window of half-width tol around the reference value ref, cut at 0 and,
\* for the dimensions other than the tempo, at 1
Window(d, ref, tol) ==
    [def |-> TRUE,
     min |-> IF ref - tol < 0 THEN 0 ELSE ref - tol,
     max |-> IF d # "tempo" /\ ref + tol > 100 THEN 100 ELSE ref + tol]

\* C25: in dynamic mode the range of every dimension is the window
\* [reference - tolerance, reference + tolerance] of the match preset's
\* tolerance, cut to [0, 1] for energy, valence and danceability and only at
\* 0 for the tempo, and it holds its reference; a reference energy of 0.9
\* gives [0.65, 1.0].
C25_DynamicWindow ==
    \A r \in Reqs :
        LET k == hist.check[r]
            tol == VIBE_PRESETS["match"].tolerance
        IN  (k.done /\ k.dynamic)
            => /\ \A d \in Dimensions :
                     /\ k.thresholds[d] =
                           Window(d, k.referenceFeatures[d], tol[d])
                     /\ k.thresholds[d].min <= k.referenceFeatures[d]
                     /\ k.referenceFeatures[d] <= k.thresholds[d].max
               /\ k.referenceFeatures.energy = 90
                  => (/\ k.thresholds.energy.min = 65
                      /\ k.thresholds.energy.max = 100)

\* C25's case: a reference of energy 0.9 and valence 0.1, whose windows are
\* cut at both ends of the domain, and one of tempo 290, whose window runs
\* to 310
C25_Witness ==
    /\ \E r \in Reqs :
          LET k == hist.check[r]
          IN  /\ k.done /\ k.dynamic
              /\ k.referenceFeatures.energy = 90
              /\ k.referenceFeatures.valence = 10
              /\ k.thresholds.valence.min = 0
    /\ currentVibe.preset = "match"

(***************************************************************************)
(* The answers to the append                                               *)
(***************************************************************************)
\* the status of the answer that spotifyFetch returned to the route of the
\* request in slot r
ObserveStatus(r, a) ==
    hist' = [hist EXCEPT
               !.answer[r] = IF a.neterror \/ (reqs[r].pc = "fetch" /\ a.status = 401)
                             THEN @ ELSE a.status]

\* the response of slot r has been sent: its answer is forgotten
ObserveSent(r) ==
    hist' = [hist EXCEPT !.answer[r] = NULL]

\* The append: enqueues of an authenticated host with the policy off, whose
\* append is answered with any status or not at all
NextAppend ==
    \/ \E r \in Reqs, c \in OneClient, uri \in Uris :
          CountBelow(c, MaxSucc + 1) /\ StartEnqueue(r, c, uri) /\ Quiet
    \/ \E r \in Reqs : \E a \in Answers("append") :
          FetchAnswer(r, a) /\ ObserveStatus(r, a)
    \/ \E r \in Reqs, ans \in RefreshAnswers, ei \in ExpiresIn :
          RefreshAnswer(r, ans, ei) /\ Quiet
    \/ \E r \in Reqs : Retire(r) /\ ObserveSent(r)

SpecAppend == InitAuthenticated /\ [][NextAppend]_vars

\* C26: an enqueue whose append is answered 404 ends as "No active device
\* found" with status 404 and commits nothing; one whose append is answered
\* with any other status outside 2xx ends as the generic upstream failure
\* with that status; and no other enqueue ends as either.
C26_NoActiveDevice ==
    /\ [](\A r \in Reqs :
             LET q == reqs[r]
                 st == hist.answer[r]
             IN  /\ (q.pc = "done" /\ st = 404)
                    => (q.outcome = "no_device" /\ q.status = 404)
                 /\ (q.pc = "done" /\ st # NULL /\ st # 404
                     /\ (st < 200 \/ st > 299))
                    => (q.outcome = "upstream_failed" /\ q.status = st)
                 /\ (q.pc = "done" /\ q.outcome = "no_device") => st = 404
                 /\ (q.pc = "done" /\ q.outcome = "upstream_failed")
                    => (st # NULL /\ st # 404 /\ (st < 200 \/ st > 299)))
    /\ [][\A r \in Reqs :
             Ends(r, "no_device")
             => (rateLimitStore' = rateLimitStore /\ Entries' = Entries)]_vars

\* C26's case: one enqueue ended for the lack of an active device, another
\* as an upstream failure, and the client's entry holds a count
C26_Witness ==
    \E r, p \in Reqs :
        /\ reqs[r].pc = "done" /\ reqs[r].outcome = "no_device"
        /\ hist.answer[r] = 404
        /\ reqs[p].pc = "done" /\ reqs[p].outcome = "upstream_failed"
        /\ hist.answer[p] = 500
        /\ Entry(reqs[r].client).count > 0

(***************************************************************************)
(* The outcomes of the handshake                                           *)
(***************************************************************************)
\* C27: a callback that carries a state token whose record is in
\* oauthStateStore leaves the store without that record, whatever else its
\* query carries and however it ends.
C27_CompletionConsumes ==
    [][\A s \in States :
          (CallbackStep /\ hist'.cbState = s /\ oauthStateStore[s] # NULL)
          => oauthStateStore'[s] = NULL]_vars

\* the token exchange of a callback is answered in this step
ExchangeStep == cbInFlight' < cbInFlight

\* the ends of a callback that fails
CallbackFailures ==
    {"error", "missing_code", "state_mismatch", "token_exchange_failed",
     "server_error"}

LoginStep == nextState' = nextState + 1

\* C29: when begin-login returns the store holds the record it created, holds
\* no record older than ten minutes, and holds every other record that was
\* no older than ten minutes as it was.
C29_SweepOnLogin ==
    [][LoginStep
       => /\ oauthStateStore'[nextState'] = now
          /\ \A s \in States :
                oauthStateStore'[s] # NULL => now - oauthStateStore'[s] <= 600000
          /\ \A s \in States \ {nextState'} :
                (oauthStateStore[s] # NULL /\ now - oauthStateStore[s] <= 600000)
                => oauthStateStore'[s] = oauthStateStore[s]]_vars

\* C29's case: the second begin-login, twenty minutes after the first, has
\* swept the record of the first, which no callback had consumed
C29_Witness ==
    /\ nextState = 2 /\ hist.exch[1] = 0
    /\ oauthStateStore[1] = NULL
    /\ oauthStateStore[2] = 1200000

(***************************************************************************)
(* The estimate of the 429                                                 *)
(***************************************************************************)
\* the clock of the estimate's specification advances by 20 min 50 s
OddStep == 1250000

\* The estimate: one enqueue at a time, each adding its track, at times that
\* are no whole minutes from the window's start
NextEstimate ==
    \/ Tick(OddStep, 3 * OddStep) /\ Quiet
    \/ \E r \in Reqs, c \in OneClient :
          Alone /\ StartEnqueue(r, c, "track") /\ Quiet
    \/ \E r \in Reqs :
          FetchAnswer(r, Answer(204, NoFeatures, FALSE)) /\ Quiet
    \/ \E r \in Reqs : Retire(r) /\ Quiet

SpecEstimate == InitAuthenticated /\ [][NextEstimate]_vars

\* C30: an enqueue answered QuotaExceeded reports remaining = 0, the reset
\* time windowStart + 1 hour of its client's stored window, and as minutes
\* the least whole number of minutes that reaches from now to the reset
\* time, which is between 1 and 60.
C30_QuotaExceededAnswer ==
    [][\A r \in Reqs :
          (Arrives(r) /\ reqs'[r].outcome = "rate_limited")
          => LET q == reqs'[r]
                 reset == Entry(q.client).windowStart + 3600000
             IN  /\ q.status = 429 /\ q.remaining = 0
                 /\ rateLimitStore[q.client] # NULL
                 /\ q.resetAt = reset
                 /\ q.minutes * 60000 >= reset - now
                 /\ (q.minutes - 1) * 60000 < reset - now
                 /\ q.minutes >= 1 /\ q.minutes <= 60]_vars

\* C30's case: an enqueue was turned away 20 min 50 s into a full window,
\* with 40 minutes as its estimate
C30_Witness ==
    \E r \in Reqs :
        /\ reqs[r].pc = "done" /\ reqs[r].outcome = "rate_limited"
        /\ reqs[r].resetAt = 3600000 /\ reqs[r].minutes = 40
        /\ now = 1250000

(***************************************************************************)
(* Concurrent commits                                                      *)
(***************************************************************************)
\* C31: no commit is lost: an enqueue that ends with its track added and
\* counted, and that was reserved in the window the store holds (the same
\* windowStart), leaves the stored count of that window one higher.
C31_NoLostCommit ==
    [][\A r \in Reqs :
          (/\ Ends(r, "added")
           /\ rateLimitStore[reqs[r].client] # NULL
           /\ limObjs[reqs[r].lim].windowStart
                 = Entry(reqs[r].client).windowStart)
          => Entries'[reqs[r].client].count
                = Entries[reqs[r].client].count + 1]_vars

\* C32: the windowStart stored for a client never decreases.
C32_WindowStartMonotone ==
    [][\A c \in Clients :
          (rateLimitStore[c] # NULL /\ rateLimitStore'[c] # NULL)
          => Entries'[c].windowStart >= Entries[c].windowStart]_vars

\* C36: the remaining quota in a response (of an enqueue that added its
\* track, of a QuotaExceeded answer, of a rate-limit status) lies between 0
\* and 10.
C36_RemainingInRange ==
    \A r \in Reqs :
        (reqs[r].pc = "done"
         /\ reqs[r].outcome \in {"added", "rate_limited", "peeked"})
        => (reqs[r].remaining >= 0 /\ reqs[r].remaining <= 10)

(***************************************************************************)
(* Logout                                                                  *)
(***************************************************************************)
\* the host has logged out and no complete-login has succeeded since
ObserveLogout == hist' = [hist EXCEPT !.loggedOut = TRUE]
ObserveLogin(ans) ==
    hist' = [hist EXCEPT !.loggedOut = IF ans = "ok" THEN FALSE ELSE @]

\* Logout: the completion of the logins, logout, and the routes that call the
\* upstream API with the policy off, whose calls and refreshes a logout can
\* overtake
NextLogout ==
    \/ \E ans \in ExchangeAnswers, ei \in ExpiresIn :
          CallbackAnswer(ans, ei) /\ ObserveLogin(ans)
    \/ Logout /\ ObserveLogout
    \/ \E r \in Reqs, c \in OneClient :
          CountBelow(c, MaxSucc) /\ StartEnqueue(r, c, "track") /\ Quiet
    \/ \E r \in Reqs : StartRead(r) /\ Quiet
    \/ \E r \in Reqs : \E a \in Answers(reqs[r].stage) : FetchAnswer(r, a) /\ Quiet
    \/ \E r \in Reqs, ans \in RefreshAnswers, ei \in ExpiresIn :
          RefreshAnswer(r, ans, ei) /\ Quiet
    \/ \E r \in Reqs : Retire(r) /\ Quiet

SpecLogout == InitExchanging /\ [][NextLogout]_vars

\* C33: from a logout until a complete-login succeeds, auth-status reports
\* authenticated = false and every request to an upstream-backed route that
\* arrives is answered Not authenticated, whatever refresh or upstream call
\* was in flight at the logout.
C33_LogoutHolds ==
    /\ [](hist.loggedOut => ~AuthStatus(hostTokens).authenticated)
    /\ [][\A r \in Reqs :
             (Arrives(r) /\ hist.loggedOut)
             => /\ reqs'[r].pc = "done"
                /\ reqs'[r].outcome = "not_authenticated"]_vars

\* C34: accessToken, refreshToken and expiresAt are all null or all set.
C34_AllOrNothing ==
    \/ /\ hostTokens.accessToken = "null"
       /\ hostTokens.refreshToken = "null"
       /\ hostTokens.expiresAt = NULL
    \/ /\ hostTokens.accessToken # "null"
       /\ hostTokens.refreshToken # "null"
       /\ hostTokens.expiresAt # NULL

(***************************************************************************)
(* The policy under change                                                 *)
(***************************************************************************)
\* the outcomes of the enqueue's pipeline
PipelineOutcomes ==
    {"rate_limited", "invalid_request", "vibe_mismatch", "added",
     "added_uncounted", "no_device", "upstream_failed", "not_authenticated"}

\* C35: with every upstream call answered, an enqueue ends in an outcome of
\* its pipeline, never in an internal error, whatever set-vibe requests are
\* handled while it awaits its answers.
C35_OnePolicy ==
    \A r \in Reqs :
        reqs[r].pc = "done" => reqs[r].outcome \in PipelineOutcomes

(***************************************************************************)
(* set-vibe                                                                *)
(***************************************************************************)
\* the last set-vibe request: its preset id, its customSettings and the
\* status of its answer; turn changes with every request
ObserveSetVibe(preset, custom) ==
    hist' = [hist EXCEPT
               !.setVibe = [preset |-> preset, custom |-> custom,
                            status |-> VibeStatus(preset), turn |-> 1 - @.turn]]

\* the preset ids a set-vibe request is sent with: those of VibeInputs and a
\* name that is no preset's but that every object has
PresetInputs == VibeInputs \cup InheritedIds

\* set-vibe: requests with every kind of preset id, and one enqueue at a time
\* under the policy they leave
NextPolicy ==
    \/ \E preset \in PresetInputs, custom \in CustomInputs :
          SetVibe(preset, custom) /\ ObserveSetVibe(preset, custom)
    \/ \E r \in Reqs, c \in OneClient :
          AllIdle /\ CountBelow(c, MaxSucc) /\ StartEnqueue(r, c, "track")
          /\ Quiet
    \/ \E r \in Reqs : \E a \in ReserveAnswers : FetchAnswer(r, a) /\ Quiet
    \/ \E r \in Reqs : Retire(r) /\ Quiet

SpecPolicy == InitAuthenticated /\ [][NextPolicy]_vars

\* the ids of the presets
KnownPresets ==
    {"off", "match", "chill", "party", "romantic", "hype", "custom"}

\* C38: a set-vibe whose preset id is missing or is no preset's is answered
\* 400 and leaves currentVibe as it was; one with a preset's id is answered
\* 200 and leaves currentVibe with that id and with the preset's settings,
\* for "custom" with the customSettings laid over them and enabled true.
C38_SetVibe ==
    [][hist'.setVibe # hist.setVibe
       => LET i == hist'.setVibe
          IN  IF i.preset \in KnownPresets
              THEN /\ i.status = 200
                   /\ currentVibe'.preset = i.preset
                   /\ currentVibe'.settings =
                         IF i.preset = "custom" /\ i.custom # NoCustom
                         THEN [f \in DOMAIN VIBE_PRESETS["custom"]
                                    \cup DOMAIN i.custom |->
                                 IF f = "enabled" THEN TRUE
                                 ELSE IF f \in DOMAIN i.custom THEN i.custom[f]
                                 ELSE VIBE_PRESETS["custom"][f]]
                         ELSE VIBE_PRESETS[i.preset]
              ELSE /\ i.status = 400
                   /\ currentVibe' = currentVibe]_vars

(***************************************************************************)
(* Two clients                                                             *)
(***************************************************************************)
\* client c may send another enqueue: the first client until its count has
\* passed the limit, the others while theirs is below MaxSucc
MaySend(c) ==
    CountBelow(c, IF c = 1 THEN RATE_LIMIT_MAX_REQUESTS + 1 ELSE MaxSucc)

\* Two clients: the enqueues and the rate-limit statuses of both, together,
\* up to the hour at which the first window lapses
NextClients ==
    \/ Tick(RATE_LIMIT_WINDOW_MS, RATE_LIMIT_WINDOW_MS) /\ Quiet
    \/ \E r \in Reqs, c \in Clients :
          MaySend(c) /\ StartEnqueue(r, c, "track") /\ Quiet
    \/ \E r \in Reqs, c \in Clients : RateLimit(r, c) /\ Quiet
    \/ \E r \in Reqs : \E a \in {Answer(st, NoFeatures, FALSE) : st \in {204, 500}} :
          FetchAnswer(r, a) /\ Quiet
    \/ \E r \in Reqs : Retire(r) /\ Quiet

SpecClients == InitAuthenticated /\ [][NextClients]_vars

\* the client whose request in slot r takes this step
Acting(r) == IF reqs[r].pc = "idle" THEN reqs'[r].client ELSE reqs[r].client

\* C37: a step of a client's request (an enqueue's or a rate-limit status's)
\* leaves the entry of every other client as it was, and an enqueue is
\* turned away by the quota exactly when its own client's entry holds 10 in
\* a window that is still running.
C37_PerClientQuota ==
    [][\A r \in Reqs :
          /\ StepOf(r)
             => \A b \in Clients \ {Acting(r)} :
                   /\ rateLimitStore'[b] = rateLimitStore[b]
                   /\ Entries'[b] = Entries[b]
          /\ (Arrives(r) /\ reqs'[r].kind = "enqueue")
             => (reqs'[r].outcome = "rate_limited" <=> Full(reqs'[r].client))]_vars

\* C37's case: one client is turned away by its quota while the other's
\* enqueue has added a track and started that client's count
C37_Witness ==
    \E r, p \in Reqs :
        /\ reqs[r].pc = "done" /\ reqs[r].outcome = "rate_limited"
        /\ reqs[p].pc = "done" /\ reqs[p].outcome = "added"
        /\ reqs[p].client # reqs[r].client
        /\ Entry(reqs[r].client).count >= 10
        /\ Entry(reqs[p].client).count = 1

=============================================================================
